---- MODULE Spec2Model ----
(***************************************************************************)
(* Model of the four helper functions of introduction_eda_functions.ipynb: *)
(* nan_processor, feature_cleaner, get_feature and one_hot_encode.         *)
(*                                                                         *)
(* A table (pandas.DataFrame) is a record                                  *)
(*   [columns |-> sequence of names, index |-> sequence of row labels,     *)
(*    data |-> sequence of rows, each a sequence of cells]                 *)
(* Objects live on a heap (a sequence of objects, a reference is a         *)
(* position), so that an operation that builds a new object and one that   *)
(* changes its argument in place are different things.                     *)
(* Numbers are exact rationals (pairs / scaled integers); floating-point   *)
(* rounding is not modelled.                                               *)
(***************************************************************************)
EXTENDS Integers, Sequences, FiniteSets, TLC

\* call: the function that is called; df, replacement_str, low, high,
\* label_to_encode, labels: the caller's arguments (None when the function has
\* no such argument); pc: "ready" before the call, "done" after it returned,
\* "error" after it raised, "done2" after nan_processor was called again on
\* its own result; out: the returned value; out2: the value the second
\* nan_processor call returned
VARIABLES call, df, replacement_str, low, high, label_to_encode, labels,
          pc, out, out2

vars == <<call, df, replacement_str, low, high, label_to_encode, labels,
          pc, out, out2>>

\* ------------------------------------------------------------------ bounds
MaxRows == 3
MaxFeatRows == 4
MaxClassRows == 4
MaxLabels == 3

\* ------------------------------------------------------------ generic bits
None == "none"
Error == "error"

Range(f) == {f[i] : i \in DOMAIN f}

\* a sequence written as a function over 1..n, as a tuple
AsSeq(f) == f \o <<>>

Table(cols, idx, rows) == [columns |-> cols, index |-> idx, data |-> rows]

\* positions of a sequence that satisfy a test, in increasing order
RECURSIVE KeepPositions(_, _, _)
KeepPositions(n, keep, i) ==
    IF i > n THEN <<>>
    ELSE IF keep[i] THEN <<i>> \o KeepPositions(n, keep, i + 1)
         ELSE KeepPositions(n, keep, i + 1)

\* the default pandas index 0..n-1 and a non-default one (n-1..0)
Indexes(n) == { [i \in 1..n |-> i - 1], [i \in 1..n |-> n - i] }

\* all sequences of length n over S
SeqsOfLen(S, n) == [1..n -> S]

\* ------------------------------------------------------ nan_processor
NaN == "NaN"
NanCells == {NaN, "blah", "5"}
Sentinels == {"blah", "5", "absent"}
NanColumns == {<<"A", "B">>, <<"C">>}

\* df.replace(to_replace, np.nan): a new frame, same index and columns,
\* every cell equal to to_replace replaced by NaN
Replace(heap, ref, to_replace) ==
    LET t == heap[ref]
        nt == [t EXCEPT !.data =
                 AsSeq([r \in 1..Len(t.data) |->
                    AsSeq([c \in 1..Len(t.columns) |->
                       IF t.data[r][c] = to_replace THEN NaN
                       ELSE t.data[r][c]])])]
    IN [heap |-> Append(heap, nt), ref |-> Len(heap) + 1]

IsNa(cell) == cell = NaN

\* the rows dropna(axis=0, how='any') keeps: those without a missing cell
RowHasNa(row) == \E c \in 1..Len(row) : IsNa(row[c])

\* a row-removal loop that deletes while it walks: the row that follows a
\* deleted row is skipped
RECURSIVE SkippingKeep(_, _, _)
SkippingKeep(data, i, skip) ==
    IF i > Len(data) THEN <<>>
    ELSE IF (~skip) /\ RowHasNa(data[i])
         THEN SkippingKeep(data, i + 1, TRUE)
         ELSE <<i>> \o SkippingKeep(data, i + 1, FALSE)

DropRowsSkipping(t) ==
    LET keep == SkippingKeep(t.data, 1, FALSE)
    IN [t EXCEPT !.index = AsSeq([k \in 1..Len(keep) |-> t.index[keep[k]]]),
                 !.data = AsSeq([k \in 1..Len(keep) |-> t.data[keep[k]]])]

\* how='all': only the rows whose every cell is missing are removed
RowAllNa(row) == \A c \in 1..Len(row) : IsNa(row[c])

DropRowsAll(t) ==
    LET keep == KeepPositions(Len(t.data),
                              [i \in 1..Len(t.data) |-> ~RowAllNa(t.data[i])], 1)
    IN [t EXCEPT !.index = AsSeq([k \in 1..Len(keep) |-> t.index[keep[k]]]),
                 !.data = AsSeq([k \in 1..Len(keep) |-> t.data[keep[k]]])]

\* the rows without a missing cell, renumbered 0..k-1 (reset_index)
DropRowsReset(t) ==
    LET keep == KeepPositions(Len(t.data),
                              [i \in 1..Len(t.data) |-> ~RowHasNa(t.data[i])], 1)
    IN [t EXCEPT !.index = AsSeq([k \in 1..Len(keep) |-> k - 1]),
                 !.data = AsSeq([k \in 1..Len(keep) |-> t.data[keep[k]]])]

DropRows(t) ==
    LET keep == KeepPositions(Len(t.data),
                              [i \in 1..Len(t.data) |-> ~RowHasNa(t.data[i])], 1)
    IN [t EXCEPT !.index = AsSeq([k \in 1..Len(keep) |-> t.index[keep[k]]]),
                 !.data = AsSeq([k \in 1..Len(keep) |-> t.data[keep[k]]])]

\* tdf.dropna(axis=0, how='any'): a new frame
Dropna(heap, ref) ==
    [heap |-> Append(heap, DropRows(heap[ref])), ref |-> Len(heap) + 1]

\* nan_processor(df, replacement_str); arg is the reference of df
nan_processor(heap, arg, s) ==
    LET tdf == Replace(heap, arg, s)
        res == Dropna(tdf.heap, tdf.ref)
    IN [heap |-> res.heap, ret |-> res.ref]

InitNan ==
    /\ call = "nan_processor"
    /\ \E n \in 0..MaxRows : \E cols \in NanColumns :
          \E rows \in SeqsOfLen(SeqsOfLen(NanCells, Len(cols)), n) :
             \E idx \in Indexes(n) : df = Table(cols, idx, rows)
    /\ replacement_str \in Sentinels
    /\ low = None /\ high = None /\ label_to_encode = None /\ labels = None
    /\ pc = "ready" /\ out = None /\ out2 = None

\* the call nan_processor(df, replacement_str)
NanProcessor ==
    /\ call = "nan_processor" /\ pc = "ready"
    /\ LET r == nan_processor(<<df>>, 1, replacement_str)
       IN /\ df' = r.heap[1]
          /\ out' = r.heap[r.ret]
    /\ pc' = "done"
    /\ UNCHANGED <<call, replacement_str, low, high, label_to_encode, labels, out2>>

\* the second call of nan_processor(nan_processor(df, s), s)
NanProcessorAgain ==
    /\ call = "nan_processor" /\ pc = "done"
    /\ LET r == nan_processor(<<out>>, 1, replacement_str)
       IN /\ out' = r.heap[1]
          /\ out2' = r.heap[r.ret]
    /\ pc' = "done2"
    /\ UNCHANGED <<call, df, replacement_str, low, high, label_to_encode, labels>>

NextNan == NanProcessor \/ NanProcessorAgain

SpecNan == InitNan /\ [][NextNan]_vars

\* ------------------------------------------------------ one_hot_encode
LabelValues == {"a", "b", "c"}
LabelsToEncode == {"a", "b", "f"}

\* an encoding that stops at the first match
EncodedFirstOnly(label, lst) ==
    AsSeq([i \in 1..Len(lst) |->
             IF label = lst[i] /\ \A j \in 1..(i - 1) : lst[j] # label THEN 1 ELSE 0])

Encoded(label, lst) ==
    AsSeq([i \in 1..Len(lst) |-> IF label = lst[i] THEN 1 ELSE 0])

\* [1 if label_to_encode == label else 0 for label in labels]: a new list
one_hot_encode(heap, ref, label) ==
    [heap |-> Append(heap, Encoded(label, heap[ref])), ret |-> Len(heap) + 1]

InitOneHot ==
    /\ call = "one_hot_encode"
    /\ \E n \in 0..MaxLabels : labels \in SeqsOfLen(LabelValues, n)
    /\ label_to_encode \in LabelsToEncode
    /\ df = None /\ replacement_str = None /\ low = None /\ high = None
    /\ pc = "ready" /\ out = None /\ out2 = None

\* the call one_hot_encode(label_to_encode, labels)
OneHotEncode ==
    /\ call = "one_hot_encode" /\ pc = "ready"
    /\ LET r == one_hot_encode(<<labels>>, 1, label_to_encode)
       IN /\ labels' = r.heap[1]
          /\ out' = r.heap[r.ret]
    /\ pc' = "done"
    /\ UNCHANGED <<call, df, replacement_str, low, high, label_to_encode, out2>>

NextOneHot == OneHotEncode

SpecOneHot == InitOneHot /\ [][NextOneHot]_vars

\* ------------------------------------------------------ feature_cleaner
\* a rational is <<numerator, denominator>> with a positive denominator
Num(q) == q[1]
Den(q) == q[2]

Fractions == { <<0 - 1, 4>>, <<0, 1>>, <<1, 100>>, <<1, 4>>, <<3, 4>>,
               <<1, 1>>, <<5, 4>> }
FeatValues == {0, 1, 3}
FeatColumns == <<"0", "1">>
IndexLabels == <<"A", "B", "C", "D", "E", "F", "G", "H">>

\* rows in non-decreasing lexicographic order: one table per multiset of rows
\* (the percentiles of a column do not depend on the order of its rows, and
\* every row is kept or removed under its own label)
RECURSIVE RowLeq(_, _)
RowLeq(a, b) ==
    IF Len(a) = 0 THEN TRUE
    ELSE IF Head(a) = Head(b) THEN RowLeq(Tail(a), Tail(b))
         ELSE Head(a) < Head(b)

FeatRowsInOrder(rows) == \A i \in 1..(Len(rows) - 1) : RowLeq(rows[i], rows[i + 1])

Column(t, c) == AsSeq([r \in 1..Len(t.data) |-> t.data[r][c]])

\* ascending sort of a sequence of integers
RECURSIVE Sorted(_)
Sorted(seq) ==
    IF Len(seq) = 0 THEN <<>>
    ELSE LET m == CHOOSE i \in 1..Len(seq) :
                     \A j \in 1..Len(seq) : seq[i] <= seq[j]
         IN <<seq[m]>> \o Sorted(SubSeq(seq, 1, m - 1) \o SubSeq(seq, m + 1, Len(seq)))

\* the q-quantile of a non-empty column by linear interpolation between the
\* order statistics around position q*(n-1), times Den(q) (an integer)
QuantileScaled(col, q) ==
    LET a == Sorted(col)
        pos == Num(q) * (Len(a) - 1)
        lo == pos \div Den(q)
        rem == pos % Den(q)
    IN IF rem = 0 THEN a[lo + 1] * Den(q)
       ELSE a[lo + 1] * Den(q) + (a[lo + 2] - a[lo + 1]) * rem

\* df.quantile([low, high]) raises for a q outside [0, 1]
QuantileRaises(q) == Num(q) < 0 \/ Num(q) > Den(q)

\* df.quantile([low, high]): row 1 the low and row 2 the high quantile of
\* every column, each times the denominator of its q
quantile(t, lo, hi) ==
    << AsSeq([c \in 1..Len(t.columns) |-> QuantileScaled(Column(t, c), lo)]),
       AsSeq([c \in 1..Len(t.columns) |-> QuantileScaled(Column(t, c), hi)]) >>

\* quantile.iloc[0] <= df & df <= quantile.iloc[1]
InRangeLoose(x, qlo, qhi, lo, hi) ==
    qlo <= x * Den(lo) /\ x * Den(hi) <= qhi

\* (quantile.iloc[0] < df) & (df < quantile.iloc[1]) at a cell of value x
InRange(x, qlo, qhi, lo, hi) ==
    qlo < x * Den(lo) /\ x * Den(hi) < qhi

msk_in_range(t, lo, hi) ==
    LET q == quantile(t, lo, hi)
    IN AsSeq([r \in 1..Len(t.data) |->
          AsSeq([c \in 1..Len(t.columns) |->
                   InRange(t.data[r][c], q[1][c], q[2][c], lo, hi)])])

\* a masked frame holds cells [nan, v]: v where the mask is true, NaN elsewhere
Masked(t, msk) ==
    [t EXCEPT !.data =
       AsSeq([r \in 1..Len(t.data) |->
          AsSeq([c \in 1..Len(t.columns) |->
             [nan |-> ~msk[r][c], v |-> IF msk[r][c] THEN t.data[r][c] ELSE 0]])])]

\* an indexing that hands back the frame itself, masked in place
GetItemView(heap, ref, msk) ==
    [heap |-> [heap EXCEPT ![ref] = Masked(heap[ref], msk)], ref |-> ref]

\* df[msk_in_range]: a new frame
GetItem(heap, ref, msk) ==
    [heap |-> Append(heap, Masked(heap[ref], msk)), ref |-> Len(heap) + 1]

MaskedRowHasNa(row) == \E c \in 1..Len(row) : row[c].nan

MaskedRowAllNa(row) == \A c \in 1..Len(row) : row[c].nan

\* an in-place dropna with how='all'
DropnaInplaceAll(heap, ref) ==
    LET t == heap[ref]
        keep == KeepPositions(Len(t.data),
                              [i \in 1..Len(t.data) |-> ~MaskedRowAllNa(t.data[i])], 1)
    IN [heap EXCEPT ![ref] =
          [t EXCEPT !.index = AsSeq([k \in 1..Len(keep) |-> t.index[keep[k]]]),
                    !.data = AsSeq([k \in 1..Len(keep) |-> t.data[keep[k]]])]]

\* new_df.dropna(axis=0, how='any', inplace=True): changes the frame at ref
DropnaInplace(heap, ref) ==
    LET t == heap[ref]
        keep == KeepPositions(Len(t.data),
                              [i \in 1..Len(t.data) |-> ~MaskedRowHasNa(t.data[i])], 1)
    IN [heap EXCEPT ![ref] =
          [t EXCEPT !.index = AsSeq([k \in 1..Len(keep) |-> t.index[keep[k]]]),
                    !.data = AsSeq([k \in 1..Len(keep) |-> t.data[keep[k]]])]]

RECURSIVE SumSeq(_)
SumSeq(seq) == IF Len(seq) = 0 THEN 0 ELSE Head(seq) + SumSeq(Tail(seq))

\* n * (sum of squared deviations from the mean) = n*sum(x^2) - sum(x)^2
SumSqDev(col) ==
    Len(col) * SumSeq([i \in 1..Len(col) |-> col[i] * col[i]]) - SumSeq(col) * SumSeq(col)

\* (x - mean) / std of a column of n values, kept exact: the z-score is
\* (dev / n) / sqrt(ss / (n * (n - 1))); NaN when std is NaN (n < 2) or 0/0
ZScore(x, col) ==
    IF Len(col) < 2 \/ SumSqDev(col) = 0
    THEN [nan |-> TRUE, dev |-> 0, ss |-> 0, n |-> 0]
    ELSE [nan |-> FALSE, dev |-> Len(col) * x - SumSeq(col),
          ss |-> SumSqDev(col), n |-> Len(col)]

\* (new_df - new_df.mean()) / new_df.std(): a new frame
Standardize(heap, ref) ==
    LET t == heap[ref]
        vals == AsSeq([c \in 1..Len(t.columns) |->
                         AsSeq([r \in 1..Len(t.data) |-> t.data[r][c].v])])
        nt == [t EXCEPT !.data =
                 AsSeq([r \in 1..Len(t.data) |->
                    AsSeq([c \in 1..Len(t.columns) |->
                             ZScore(t.data[r][c].v, vals[c])])])]
    IN [heap |-> Append(heap, nt), ref |-> Len(heap) + 1]

\* feature_cleaner(df, low, high); ret = 0 stands for a raised exception
feature_cleaner(heap, arg, lo, hi) ==
    IF QuantileRaises(lo) \/ QuantileRaises(hi)
    THEN [heap |-> heap, ret |-> 0]
    ELSE LET msk == msk_in_range(heap[arg], lo, hi)
             new_df == GetItem(heap, arg, msk)
             dropped == DropnaInplace(new_df.heap, new_df.ref)
             res == Standardize(dropped, new_df.ref)
         IN [heap |-> res.heap, ret |-> res.ref]

InitFeat ==
    /\ call = "feature_cleaner"
    /\ \E n \in 1..MaxFeatRows :
          \E rows \in SeqsOfLen(SeqsOfLen(FeatValues, Len(FeatColumns)), n) :
             /\ FeatRowsInOrder(rows)
             /\ df = Table(FeatColumns, SubSeq(IndexLabels, 1, n), rows)
    /\ low \in Fractions /\ high \in Fractions
    /\ replacement_str = None /\ label_to_encode = None /\ labels = None
    /\ pc = "ready" /\ out = None /\ out2 = None

\* the call feature_cleaner(df, low, high)
FeatureCleaner ==
    /\ call = "feature_cleaner" /\ pc = "ready"
    /\ LET r == feature_cleaner(<<df>>, 1, low, high)
       IN /\ df' = r.heap[1]
          /\ out' = IF r.ret = 0 THEN Error ELSE r.heap[r.ret]
          /\ pc' = IF r.ret = 0 THEN "error" ELSE "done"
    /\ UNCHANGED <<call, replacement_str, low, high, label_to_encode, labels, out2>>

NextFeat == FeatureCleaner

SpecFeat == InitFeat /\ [][NextFeat]_vars

\* ------------------------------------------------------ get_feature
ValuesOfA == {0, 1, 2}
ValuesOfB == {0, 2}
ClassVals == {0, 1, 2}
ClassColumn == "CLASS"
ClassColumnOrders == { <<"A", "B", "CLASS">>, <<"CLASS", "B", "A">> }

\* a row as <<A, B, CLASS>>
RowsOfClassTable == ValuesOfA \X ValuesOfB \X ClassVals

\* rows in non-decreasing rank: one table per multiset of rows (every
\* statistic get_feature computes is symmetric in the rows)
RowsInOrder(rows) == \A i \in 1..(Len(rows) - 1) : RowLeq(rows[i], rows[i + 1])

CellOf(row, name) ==
    IF name = "A" THEN row[1] ELSE IF name = "B" THEN row[2] ELSE row[3]

ClassTable(cols, rows) ==
    Table(cols, AsSeq([i \in 1..Len(rows) |-> i - 1]),
          AsSeq([r \in 1..Len(rows) |->
                   AsSeq([c \in 1..Len(cols) |-> CellOf(rows[r], cols[c])])]))

ColumnPos(t, name) == CHOOSE c \in 1..Len(t.columns) : t.columns[c] = name

\* df.groupby("CLASS"): the class values present, and the rows of each
Groups(t) == Range(Column(t, ColumnPos(t, ClassColumn)))

GroupColumn(t, g, c) ==
    LET cls == ColumnPos(t, ClassColumn)
        keep == KeepPositions(Len(t.data),
                              [r \in 1..Len(t.data) |-> t.data[r][cls] = g], 1)
    IN AsSeq([k \in 1..Len(keep) |-> t.data[keep[k]][c]])

\* a float result: NaN, or the rational num/den with den > 0
NaNFloat == [nan |-> TRUE, num |-> 0, den |-> 1]
Rational(n, d) == [nan |-> FALSE, num |-> n, den |-> d]
Less(a, b) == a.num * b.den < b.num * a.den

MaxOf(col) == CHOOSE x \in Range(col) : \A y \in Range(col) : y <= x
MinOf(col) == CHOOSE x \in Range(col) : \A y \in Range(col) : x <= y

\* (np.max(x) - np.min(x)) / x.var() for one column of one group:
\* var (ddof = 1) is SumSqDev / (n * (n - 1)), NaN for n < 2; 0 / 0 is NaN
RangeOverVar(col) ==
    IF Len(col) < 2 \/ SumSqDev(col) = 0 THEN NaNFloat
    ELSE Rational((MaxOf(col) - MinOf(col)) * Len(col) * (Len(col) - 1), SumSqDev(col))

\* df_by_class.apply(...): one row per group, one R per column (CLASS included)
df_w_ratio(t) ==
    [g \in Groups(t) |->
       AsSeq([c \in 1..Len(t.columns) |-> RangeOverVar(GroupColumn(t, g, c))])]

\* np.max(x) / np.min(x) over the non-missing R of a column
MaxOverMin(rs) ==
    LET ok == {r \in rs : ~r.nan}
    IN IF ok = {} THEN NaNFloat
       ELSE LET mx == CHOOSE a \in ok : \A b \in ok : ~Less(a, b)
                mn == CHOOSE a \in ok : \A b \in ok : ~Less(b, a)
            IN Rational(mx.num * mn.den, mx.den * mn.num)

df_sort(t) ==
    LET w == df_w_ratio(t)
    IN AsSeq([c \in 1..Len(t.columns) |-> MaxOverMin({w[g][c] : g \in Groups(t)})])

\* an idxmax that does not skip missing values: NaN as soon as one is there
IdxmaxNoSkip(names, ks) ==
    IF \E c \in 1..Len(ks) : ks[c].nan THEN NaN
    ELSE names[CHOOSE c \in 1..Len(ks) :
                 /\ \A d \in 1..Len(ks) : ~Less(ks[c], ks[d])
                 /\ \A d \in 1..(c - 1) : Less(ks[d], ks[c])]

\* an idxmax that keeps the last of several maxima
IdxmaxLast(names, ks) ==
    IF \A c \in 1..Len(ks) : ks[c].nan THEN NaN
    ELSE names[CHOOSE c \in 1..Len(ks) :
                 /\ ~ks[c].nan
                 /\ \A d \in 1..Len(ks) : ks[d].nan \/ ~Less(ks[c], ks[d])
                 /\ \A d \in (c + 1)..Len(ks) : ks[d].nan \/ Less(ks[d], ks[c])]

\* Series.idxmax(): the label of the first maximum, missing values skipped;
\* NaN when every value is missing (pandas 1.x, the notebook's Python 3.7 kernel)
Idxmax(names, ks) ==
    IF \A c \in 1..Len(ks) : ks[c].nan THEN NaN
    ELSE names[CHOOSE c \in 1..Len(ks) :
                 /\ ~ks[c].nan
                 /\ \A d \in 1..Len(ks) : ks[d].nan \/ ~Less(ks[c], ks[d])
                 /\ \A d \in 1..(c - 1) : ks[d].nan \/ Less(ks[d], ks[c])]

get_feature(t) == Idxmax(t.columns, df_sort(t))

InitClass ==
    /\ call = "get_feature"
    /\ \E n \in 1..MaxClassRows : \E rows \in [1..n -> RowsOfClassTable] :
          /\ RowsInOrder(rows)
          /\ \E cols \in ClassColumnOrders : df = ClassTable(cols, rows)
    /\ replacement_str = None /\ low = None /\ high = None
    /\ label_to_encode = None /\ labels = None
    /\ pc = "ready" /\ out = None /\ out2 = None

\* the call get_feature(df)
GetFeature ==
    /\ call = "get_feature" /\ pc = "ready"
    /\ out' = get_feature(df)
    /\ pc' = "done"
    /\ UNCHANGED <<call, df, replacement_str, low, high, label_to_encode, labels, out2>>

NextClass == GetFeature

SpecClass == InitClass /\ [][NextClass]_vars

\* ------------------------------------------------------ the four functions
Init == InitNan \/ InitFeat \/ InitClass \/ InitOneHot

Next == NextNan \/ NextFeat \/ NextClass \/ NextOneHot

Spec == Init /\ [][Next]_vars

\* ====================================================== properties
Returned == pc \in {"done", "done2"}

\* ------------------------------------------------------ nan_processor
NanReturned == call = "nan_processor" /\ Returned

\* the position in table t of the row labelled lbl (labels are distinct)
PosOf(t, lbl) == CHOOSE i \in 1..Len(t.index) : t.index[i] = lbl

\* row i of df is in the output: same label, same cells
Survives(i) ==
    \E k \in 1..Len(out.index) :
        out.index[k] = df.index[i] /\ out.data[k] = df.data[i]

HasSentinel(row) == \E c \in 1..Len(row) : row[c] = replacement_str
HasMissing(row) == \E c \in 1..Len(row) : row[c] = NaN

\* C1 as stated: after nan_processor(df, s) a row of df survives if and only
\* if none of its original cells equals s.
C1_SurvivesIffNoSentinel ==
    NanReturned =>
        \A i \in 1..Len(df.data) : Survives(i) <=> ~HasSentinel(df.data[i])

\* C1 amended: after nan_processor(df, s) a row of df survives if and only if
\* none of its original cells equals s and none of them is missing already.
C1_SurvivesIffNoSentinelNoMissing ==
    NanReturned =>
        \A i \in 1..Len(df.data) :
            Survives(i) <=> (~HasSentinel(df.data[i]) /\ ~HasMissing(df.data[i]))

\* a call that kept one row, dropped one for the sentinel and dropped one
\* that held a missing cell but not the sentinel
C1_Witness ==
    /\ NanReturned
    /\ \E i, j, k \in 1..Len(df.data) :
          /\ Survives(i)
          /\ HasSentinel(df.data[j]) /\ ~HasMissing(df.data[j]) /\ ~Survives(j)
          /\ HasMissing(df.data[k]) /\ ~HasSentinel(df.data[k]) /\ ~Survives(k)

\* C7: nan_processor keeps the index label and the cells of every surviving
\* row, keeps the surviving rows in their original order, keeps the columns
\* and their order, and returns an empty table with the original columns when
\* every row contains the sentinel.
C7_IndexOrderColumnsKept ==
    NanReturned =>
        /\ out.columns = df.columns
        /\ Len(out.index) = Len(out.data)
        /\ \A k \in 1..Len(out.index) :
              /\ out.index[k] \in Range(df.index)
              /\ out.data[k] = df.data[PosOf(df, out.index[k])]
        /\ \A k, l \in 1..Len(out.index) :
              k < l => PosOf(df, out.index[k]) < PosOf(df, out.index[l])
        /\ (\A i \in 1..Len(df.data) : HasSentinel(df.data[i]))
              => (out.data = <<>> /\ out.index = <<>>)

\* the first row was dropped and two rows survived, under an index that is
\* not the default one
C7_Witness ==
    /\ NanReturned
    /\ Len(df.data) >= 3 /\ Len(out.data) = 2
    /\ ~Survives(1)
    /\ df.index[1] # 0

\* C8: nan_processor(nan_processor(df, s), s) equals nan_processor(df, s):
\* same columns, same index labels, same cells.
C8_Idempotent ==
    (call = "nan_processor" /\ pc = "done2") => out2 = out

\* the second call ran on a result that had lost rows and kept some
C8_Witness ==
    /\ call = "nan_processor" /\ pc = "done2"
    /\ Len(out.data) > 0 /\ Len(out.data) < Len(df.data)
    /\ \E i \in 1..(Len(df.data) - 1) :
          HasSentinel(df.data[i]) /\ HasSentinel(df.data[i + 1])

\* ------------------------------------------------------ feature_cleaner
FeatCalled == call = "feature_cleaner" /\ pc # "ready"
FeatReturned == call = "feature_cleaner" /\ pc = "done"

\* 0 < low < high < 1
ValidThresholds ==
    /\ 0 < Num(low) /\ Num(low) < Den(low)
    /\ 0 < Num(high) /\ Num(high) < Den(high)
    /\ Num(low) * Den(high) < Num(high) * Den(low)

\* row r of df is in the output (under its own label)
Retained(r) == df.index[r] \in Range(out.index)

\* the value of row r in column c lies strictly between the low and the high
\* percentile of column c of df
StrictlyInside(r, c) ==
    /\ QuantileScaled(Column(df, c), low) < df.data[r][c] * Den(low)
    /\ df.data[r][c] * Den(high) < QuantileScaled(Column(df, c), high)

\* C2: with 0 < low < high < 1 a row of df is retained if and only if in every
\* column its value is strictly greater than the column's low percentile and
\* strictly less than its high percentile, both taken on the column of df.
C2_RetainedIffStrictlyInside ==
    (FeatReturned /\ ValidThresholds) =>
        /\ Len(out.index) = Len(out.data)
        /\ \A r \in 1..Len(df.data) :
              Retained(r) <=> \A c \in 1..Len(df.columns) : StrictlyInside(r, c)

\* one row retained, one removed for a value equal to a percentile, one
\* removed for being out of range in a single column only
C2_Witness ==
    /\ FeatReturned /\ ValidThresholds
    /\ \E r \in 1..Len(df.data) : Retained(r)
    /\ \E r \in 1..Len(df.data) : \E c \in 1..Len(df.columns) :
          /\ ~Retained(r)
          /\ \/ df.data[r][c] * Den(low) = QuantileScaled(Column(df, c), low)
             \/ df.data[r][c] * Den(high) = QuantileScaled(Column(df, c), high)
    /\ \E r \in 1..Len(df.data) : \E c, d \in 1..Len(df.columns) :
          ~Retained(r) /\ StrictlyInside(r, c) /\ ~StrictlyInside(r, d)

\* C5 as stated: a call with low or high outside (0, 1), or with low >= high,
\* ends in an error and returns no table.
C5_InvalidThresholdsRejected ==
    (FeatCalled /\ ~ValidThresholds) => (pc = "error" /\ out = Error)

\* C10: with 0 < low < high < 1 the low percentile of a column is never below
\* its minimum, the high percentile never above its maximum, and no retained
\* row holds the minimum or the maximum of any column; a table whose every row
\* holds some column's minimum or maximum yields no row.
HoldsExtreme(r) ==
    \E c \in 1..Len(df.columns) :
        \/ \A q \in 1..Len(df.data) : df.data[r][c] <= df.data[q][c]
        \/ \A q \in 1..Len(df.data) : df.data[r][c] >= df.data[q][c]

C10_NoExtremeRetained ==
    (FeatReturned /\ ValidThresholds) =>
        /\ \A c \in 1..Len(df.columns) :
              /\ \E p \in 1..Len(df.data) :
                    df.data[p][c] * Den(low) <= QuantileScaled(Column(df, c), low)
              /\ \E p \in 1..Len(df.data) :
                    QuantileScaled(Column(df, c), high) <= df.data[p][c] * Den(high)
        /\ \A r \in 1..Len(df.data) : HoldsExtreme(r) => ~Retained(r)
        /\ (\A r \in 1..Len(df.data) : HoldsExtreme(r)) => out.data = <<>>

\* a row that holds a column's minimum but lies strictly inside the other
\* column was removed while another row was retained
C10_Witness ==
    /\ FeatReturned /\ ValidThresholds
    /\ \E r \in 1..Len(df.data) : Retained(r)
    /\ \E r \in 1..Len(df.data) : \E c \in 1..Len(df.columns) :
          HoldsExtreme(r) /\ StrictlyInside(r, c) /\ ~Retained(r)

\* ------------------------------------------------------ one_hot_encode
OneHotReturned == call = "one_hot_encode" /\ pc = "done"

Occurrences == Cardinality({i \in 1..Len(labels) : labels[i] = label_to_encode})

\* C4: the output has the length of the candidate list, 1 exactly at the
\* positions whose candidate equals the label and 0 elsewhere; its sum is 1
\* when the label occurs exactly once and it is all zero when the label is
\* absent.
C4_OneHot ==
    OneHotReturned =>
        /\ Len(out) = Len(labels)
        /\ \A i \in 1..Len(labels) :
              /\ out[i] \in {0, 1}
              /\ out[i] = 1 <=> labels[i] = label_to_encode
        /\ Occurrences = 1 => SumSeq(out) = 1
        /\ Occurrences = 0 => (SumSeq(out) = 0 /\ \A i \in 1..Len(out) : out[i] = 0)

\* a label that occurs twice in the candidates was encoded
C4_Witness ==
    /\ OneHotReturned
    /\ Occurrences = 2
    /\ \E i \in 1..Len(labels) : labels[i] # label_to_encode

\* ------------------------------------------------------ no mutation
\* C9: nan_processor, feature_cleaner and one_hot_encode leave the caller's
\* table and list as they were: every call keeps df and labels, and the second
\* nan_processor call keeps the table it was given (out).
C9_InputsNotMutated ==
    [][/\ df' = df
       /\ labels' = labels
       /\ (call = "nan_processor" /\ pc = "done") => out' = out]_vars

\* feature_cleaner returned after its in-place dropna removed rows
C9_Witness ==
    /\ FeatReturned
    /\ Len(out.data) > 0 /\ Len(out.data) < Len(df.data)

\* ------------------------------------------------------ get_feature
ClassCalled == call = "get_feature" /\ pc # "ready"

FeatureColumns == {c \in 1..Len(df.columns) : df.columns[c] # ClassColumn}

\* R_g of feature column c: (max - min) / variance over the rows of class g
R(g, c) == RangeOverVar(GroupColumn(df, g, c))

\* CLASS holds 0 and 1 only, both present, and every feature has a variance
\* and a non-zero one in both classes
WellFormed ==
    /\ Groups(df) = {0, 1}
    /\ \A c \in FeatureColumns : ~R(0, c).nan /\ ~R(1, c).nan

\* K = max(R_0, R_1) / min(R_0, R_1)
K(c) ==
    IF Less(R(0, c), R(1, c))
    THEN Rational(R(1, c).num * R(0, c).den, R(1, c).den * R(0, c).num)
    ELSE Rational(R(0, c).num * R(1, c).den, R(0, c).den * R(1, c).num)

\* C3: get_feature returns the feature column with the largest K, the first
\* one in column order when several reach it, and never the CLASS column.
C3_FirstLargestK ==
    ClassCalled =>
        /\ out # ClassColumn
        /\ WellFormed =>
              /\ \E c \in FeatureColumns : df.columns[c] = out
              /\ \A c \in FeatureColumns :
                    /\ ~Less(K(ColumnPos(df, out)), K(c))
                    /\ c < ColumnPos(df, out) => Less(K(c), K(ColumnPos(df, out)))

\* both features reach the largest K and the one that comes first in the
\* column order, B, is returned
C3_Witness ==
    /\ ClassCalled /\ WellFormed
    /\ df.columns = <<"CLASS", "B", "A">>
    /\ out = "B"
    /\ \A c \in FeatureColumns : ~Less(K(c), K(ColumnPos(df, out)))

\* the inputs of C6: a CLASS value other than 0 and 1, a feature constant
\* within a class, or a class of fewer than two rows
OtherClassValue == \E g \in Groups(df) : g \notin {0, 1}
ConstantInClass ==
    \E g \in Groups(df) : \E c \in FeatureColumns :
        Cardinality(Range(GroupColumn(df, g, c))) = 1
SmallClass ==
    \E g \in Groups(df) : Len(GroupColumn(df, g, ColumnPos(df, ClassColumn))) < 2
IllFormed == OtherClassValue \/ ConstantInClass \/ SmallClass

\* C6 as stated: on such an input get_feature ends in an error.
C6_IllFormedFails ==
    (ClassCalled /\ IllFormed) => pc = "error"

\* C6 amended: on such an input get_feature ends without an error; it returns
\* the name of a feature column that has a non-missing R in some class when
\* there is one, and the missing value NaN when there is none.
HasR(c) == \E g \in Groups(df) : ~R(g, c).nan

C6_IllFormedReturns ==
    (ClassCalled /\ IllFormed) =>
        /\ pc = "done"
        /\ (\E c \in FeatureColumns : HasR(c))
              => \E c \in FeatureColumns : HasR(c) /\ df.columns[c] = out
        /\ (\A c \in FeatureColumns : ~HasR(c)) => out = NaN

\* a table with a third CLASS value, a class of one row and a feature that
\* is constant within a class of two rows, for which a column was returned
C6_Witness ==
    /\ ClassCalled
    /\ OtherClassValue /\ SmallClass
    /\ \E g \in Groups(df) : \E c \in FeatureColumns :
          /\ Len(GroupColumn(df, g, c)) >= 2
          /\ Cardinality(Range(GroupColumn(df, g, c))) = 1
    /\ \E c \in FeatureColumns : df.columns[c] = out

====
